---------------------------- MODULE Spec2Model ----------------------------
(***************************************************************************)
(* threadcopy (src/threadcopy.c): main() parses two delimiter-separated    *)
(* lists of paths, validates the inputs, adjusts RLIMIT_NOFILE, starts one *)
(* copyFile thread per valid pair and polls the threads' status fields     *)
(* until none is running.                                                  *)
(*                                                                         *)
(* Modelling conventions                                                   *)
(*  - A C string is a sequence of character codes (no NUL inside).         *)
(*  - ifiles/ofiles/sfiles/fdata/tid are arrays indexed from 0; the model  *)
(*    keeps their first MaxNames rows, which is all the bounded inputs     *)
(*    can touch.                                                           *)
(*  - The threads share the fdata records without any synchronisation.     *)
(*    Every load or store of a shared field is one step of its own, taken  *)
(*    in program order, and the steps of main and of the threads           *)
(*    interleave freely.                                                   *)
(*  - Every library call that can fail (fopen, fread, fwrite,              *)
(*    pthread_create) fails or succeeds by a nondeterministic choice.      *)
(*  - The files of pair k are private to pair k (the bounded input lists   *)
(*    name pairwise different paths); ifs[k] and ofs[k] are their contents.*)
(*    The contents of an input file are chosen when the program first      *)
(*    opens it (line 214); nothing changes an input file afterwards.       *)
(*  - The locals of a thread are reset when the thread ends.               *)
(*  - stdio buffering is not modelled: fwrite reaches the file at once.    *)
(*  - outcome, seen and rl_set are history variables: no step reads them.  *)
(*                                                                         *)
(* Specifications                                                          *)
(*  - Spec, FairSpec: the whole program, from line 186 on.                 *)
(*  - WorkerSpec: one copyFile thread with longer files, the output open   *)
(*    to another process before the verification.                          *)
(*  - RoundTripSpec: one copyFile thread, then a second run of the program *)
(*    on the output of the first; no other process writes the files.       *)
(***************************************************************************)
EXTENDS Integers, Sequences, FiniteSets, TLC

(***************************************************************************)
(* Bounds of the model.                                                    *)
(***************************************************************************)
\* Longest list of paths given with -i or -o.
MaxNames == 3
\* Largest value of a file-descriptor limit the environment reports.
MaxLimit == 4
\* Longest input file, in bytes.
MaxFileSize == 1
\* Longest input file of the runs of a single thread, in bytes: two blocks and
\* a part of a third.
MaxCopySize == 5
\* BLOCKSIZE of the source (4096, line 43), scaled down; two bytes, so that a
\* byte is the first or the last of its block.
BLOCKSIZE == 2

(***************************************************************************)
(* Program constants.                                                      *)
(***************************************************************************)
EXIT_OK == 0
READ_ERROR == 1
WRITE_ERROR == 2
VERIFY_ERROR == 3
ARG_ERROR == 4

TS_INIT == 0
TS_RUNNING == 1
TS_DONE == 2
TS_CHECKED == 3

FILES_MAX == 10000
\* DELIMITER "|" as a character code.
DELIMITER == 124

\* No code yet: the value of exit_code while the process is alive, and of
\* outcome[k] while thread k has not decided on its result.
NoExit == ARG_ERROR + 1

(***************************************************************************)
(* Strings and the bounded inputs.                                         *)
(***************************************************************************)
Rows == 0 .. (MaxNames - 1)

\* The k-th path of an input list ("i0", "i1", ...) and of an output list.
InName(k) == <<105, 48 + k>>
OutName(k) == <<111, 48 + k>>

RECURSIVE JoinNames(_)
\* names[1] | names[2] | ... as one string.
JoinNames(names) ==
  IF Len(names) = 0 THEN <<>>
  ELSE IF Len(names) = 1 THEN names[1]
  ELSE names[1] \o <<DELIMITER>> \o JoinNames(Tail(names))

\* The well-formed lists of 0 .. MaxNames paths.
InputArgs == { JoinNames([k \in 1 .. n |-> InName(k - 1)]) : n \in 0 .. MaxNames }
OutputArgs == { JoinNames([k \in 1 .. n |-> OutName(k - 1)]) : n \in 0 .. MaxNames }

\* The input files of the bounded runs: every length up to MaxFileSize.
Contents == UNION { [1 .. n -> {0}] : n \in 0 .. MaxFileSize }

\* What another process can leave in place of an output file c between the
\* transfer and the verification: one byte changed, the last byte cut off, or
\* one byte added.
Corruptions(c) ==
  { [c EXCEPT ![p] = 1 - c[p]] : p \in 1 .. Len(c) }
    \cup (IF Len(c) > 0 THEN {SubSeq(c, 1, Len(c) - 1)} ELSE {})
    \cup {Append(c, 0)}

Min(a, b) == IF a < b THEN a ELSE b

(***************************************************************************)
(* get_filenames (lines 496-526).                                          *)
(***************************************************************************)
\* strstr(farg, DELIMITER) != NULL
HasDelimiter(farg) == \E p \in 1 .. Len(farg) : farg[p] = DELIMITER

RECURSIVE StrTok(_, _, _)
\* The tokens strtok_r returns for s, in order: the maximal runs without a
\* delimiter. cur is the run being read, acc the tokens found so far.
StrTok(s, cur, acc) ==
  IF Len(s) = 0 THEN (IF Len(cur) = 0 THEN acc ELSE Append(acc, cur))
  ELSE IF Head(s) = DELIMITER
       THEN StrTok(Tail(s), <<>>, IF Len(cur) = 0 THEN acc ELSE Append(acc, cur))
       ELSE StrTok(Tail(s), Append(cur, Head(s)), acc)

\* The rows of fn after the for loop of lines 513-522: row r holds token r+1.
StoreTokens(fn, tokens) ==
  [r \in DOMAIN fn |->
     IF r < Len(tokens) /\ r < FILES_MAX THEN tokens[r + 1] ELSE fn[r]]

\* Line 518: the loop counter when strtok_r returns NULL; 0 when the loop ends
\* at FILES_MAX without having seen NULL.
CountTokens(tokens) == IF Len(tokens) < FILES_MAX THEN Len(tokens) ELSE 0

\* Lines 523-525.
AdjustCount(numf) == IF numf > 0 THEN numf - 1 ELSE numf

\* The value get_filenames returns and the table it leaves behind.
get_filenames(farg, fn) ==
  IF Len(farg) > 0 /\ ~HasDelimiter(farg)
  THEN [numf |-> 1, fn |-> [fn EXCEPT ![0] = farg]]
  ELSE IF Len(farg) = 0
  THEN [numf |-> 0, fn |-> fn]
  ELSE LET tokens == StrTok(farg, <<>>, <<>>)
       IN [numf |-> AdjustCount(CountTokens(tokens)),
           fn |-> StoreTokens(fn, tokens)]

(***************************************************************************)
(* State.                                                                  *)
(***************************************************************************)
VARIABLES
  \* the process's arguments and environment
  ivalue, ovalue, vflag, rl,
  \* the file system: contents of the input and of the output file of pair k
  ifs, ofs,
  \* globals and locals of main
  ifiles, ofiles, sfiles, inumf, onumf, bnumf, i, t_run, cmd_result, fdata,
  \* main's position and the process's exit code
  pc, exit_code,
  \* per thread: position, FILE handles, locals of copyFile
  tpc, infile, outfile, bytes_read, ibuffer, obuffer, tret, tclose,
  \* history: the result each thread decided on, and the records main has
  \* collected, in the order it collected them
  outcome, seen,
  \* history: the number of calls of setrlimit so far
  rl_set

env == <<ivalue, ovalue, vflag>>
fsys == <<ifs, ofs>>
tables == <<ifiles, ofiles, sfiles, inumf, onumf>>
mainvars == <<bnumf, i, t_run, cmd_result, pc, exit_code>>
tlocals == <<tpc, infile, outfile, bytes_read, ibuffer, obuffer, tret, tclose>>
hist == <<outcome, seen>>
limits == <<rl, rl_set>>
vars == <<env, limits, fsys, tables, mainvars, fdata, tlocals, hist>>

\* A closed FILE pointer and a freshly opened one.
NullFile == [open |-> FALSE, pos |-> 0, eof |-> FALSE]
OpenFile == [open |-> TRUE, pos |-> 0, eof |-> FALSE]

\* A buffer after memset(.., 0, BLOCKSIZE).
ZeroBuffer == [p \in 1 .. BLOCKSIZE |-> 0]

\* A row of fdata after memset(fdata, 0, sizeof fdata) (line 254).
ZeroData ==
  [input_name |-> <<>>, output_name |-> <<>>, size |-> 0, elapsed |-> 0,
   result |-> 0, status |-> 0, verify |-> FALSE]

\* The state when main reaches line 186: tables cleared (lines 111-116),
\* arguments read, no thread created. The hard limit bounds the soft one.
Init ==
  /\ ivalue \in InputArgs
  /\ ovalue \in OutputArgs
  /\ vflag \in BOOLEAN
  /\ rl \in { [rlim_cur |-> c, rlim_max |-> m] : c \in 0 .. MaxLimit, m \in 0 .. MaxLimit }
  /\ rl.rlim_cur <= rl.rlim_max
  /\ ifs = [k \in Rows |-> <<>>]
  /\ ofs = [k \in Rows |-> <<>>]
  /\ ifiles = [k \in Rows |-> <<>>]
  /\ ofiles = [k \in Rows |-> <<>>]
  /\ sfiles = [k \in Rows |-> 0]
  /\ inumf = 0
  /\ onumf = 0
  /\ bnumf = 0
  /\ i = 0
  /\ t_run = 0
  /\ cmd_result = 0
  /\ fdata = [k \in Rows |-> ZeroData]
  /\ pc = "check_args"
  /\ exit_code = NoExit
  /\ tpc = [k \in Rows |-> "none"]
  /\ infile = [k \in Rows |-> NullFile]
  /\ outfile = [k \in Rows |-> NullFile]
  /\ bytes_read = [k \in Rows |-> 0]
  /\ ibuffer = [k \in Rows |-> ZeroBuffer]
  /\ obuffer = [k \in Rows |-> ZeroBuffer]
  /\ tret = [k \in Rows |-> EXIT_OK]
  /\ tclose = [k \in Rows |-> {}]
  /\ outcome = [k \in Rows |-> NoExit]
  /\ seen = <<>>
  /\ rl_set = 0

(***************************************************************************)
(* main (lines 81-348).                                                    *)
(***************************************************************************)
\* exit(code): the process ends, its threads with it.
Exit(code) ==
  /\ pc' = "exit"
  /\ exit_code' = code

\* Line 347: main returns, which ends the process as exit does.
Return(code) ==
  /\ pc' = "returned"
  /\ exit_code' = code

\* The process has ended.
Exited == pc \in {"exit", "returned"}

\* Lines 186-191: the two arguments must differ.
CheckArgs ==
  /\ pc = "check_args"
  /\ IF ivalue = ovalue
     THEN Exit(ARG_ERROR)
     ELSE pc' = "parse" /\ UNCHANGED exit_code
  /\ UNCHANGED <<hist, env, limits, fsys, tables, bnumf, i, t_run, cmd_result, fdata, tlocals>>

\* Lines 193-201: both lists are split and their counts compared.
ParseArgs ==
  /\ pc = "parse"
  /\ LET ri == get_filenames(ivalue, ifiles)
         ro == get_filenames(ovalue, ofiles)
     IN /\ inumf' = ri.numf
        /\ ifiles' = ri.fn
        /\ onumf' = ro.numf
        /\ ofiles' = ro.fn
        /\ IF ri.numf # ro.numf
           THEN Exit(ARG_ERROR) /\ UNCHANGED i
           ELSE /\ pc' = IF ri.numf > 0 THEN "validate" ELSE "rlimit"
                /\ i' = 0
                /\ UNCHANGED exit_code
  /\ UNCHANGED <<hist, env, limits, fsys, sfiles, bnumf, t_run, cmd_result, fdata, tlocals>>

\* check_file_size (lines 528-535): the length of the file.
check_file_size(c) == Len(c)

\* Mutant of Missing: the mark is never seen.
MissingIgnored(name) == FALSE

\* Lines 260 and 295: ifiles[i][0] == '\0', the mark of a missing input.
Missing(name) == Len(name) = 0

\* Lines 212-228, one iteration: the input of pair i is opened; a pair whose
\* input cannot be opened has both names emptied, the others get their size.
Validate ==
  /\ pc = "validate"
  /\ i < inumf
  /\ \E found \in BOOLEAN :
       IF found
       THEN \E c \in Contents :
              /\ ifs' = [ifs EXCEPT ![i] = c]
              /\ sfiles' = [sfiles EXCEPT ![i] = check_file_size(c)]
              /\ UNCHANGED <<ifiles, ofiles>>
       ELSE /\ ifiles' = [ifiles EXCEPT ![i] = <<>>]
            /\ ofiles' = [ofiles EXCEPT ![i] = <<>>]
            /\ sfiles' = [sfiles EXCEPT ![i] = 0]
            /\ UNCHANGED ifs
  /\ i' = i + 1
  /\ pc' = IF i + 1 < inumf THEN "validate" ELSE "rlimit"
  /\ UNCHANGED <<hist, env, limits, ofs, inumf, onumf, bnumf, t_run, cmd_result, exit_code,
                 fdata, tlocals>>

\* Line 231.
of_max == inumf + onumf

\* Mutant of RaisedLimit: the soft limit is raised as far as it goes.
RaisedToHardLimit(r, need) ==
  IF r.rlim_cur < need THEN [r EXCEPT !.rlim_cur = r.rlim_max] ELSE r

\* Lines 232-243: the soft limit after the adjustment.
RaisedLimit(r, need) == IF r.rlim_cur < need THEN [r EXCEPT !.rlim_cur = need] ELSE r

\* Mutant of LimitTooLow: the comparison with the hard limit is reversed.
LimitTooLowReversed(r, need) == r.rlim_cur < need /\ need < r.rlim_max

\* Lines 232-239: the limit cannot be raised far enough.
LimitTooLow(r, need) == r.rlim_cur < need /\ need > r.rlim_max

\* Line 238: the code the process exits with when the limit is too low.
LimitExitCode == READ_ERROR

\* Lines 229-254: the descriptor limit is adjusted, then the thread buffers
\* are declared and cleared.
AdjustLimit ==
  /\ pc = "rlimit"
  /\ IF LimitTooLow(rl, of_max)
     THEN Exit(LimitExitCode) /\ UNCHANGED <<limits, i, fdata>>
     ELSE /\ rl' = RaisedLimit(rl, of_max)
          /\ rl_set' = IF rl.rlim_cur < of_max THEN rl_set + 1 ELSE rl_set
          /\ fdata' = [k \in Rows |-> ZeroData]
          /\ i' = 0
          /\ pc' = IF inumf > 0 THEN "dispatch" ELSE "scan"
          /\ UNCHANGED exit_code
  /\ UNCHANGED <<hist, env, fsys, tables, bnumf, t_run, cmd_result, tlocals>>

\* Where main goes after iteration i of the dispatch loop: the next iteration,
\* or the first scan of the while loop (lines 286-289).
AfterDispatch ==
  /\ pc' = IF i + 1 < inumf THEN "dispatch" ELSE "scan"
  /\ i' = IF i + 1 < inumf THEN i + 1 ELSE 0

\* Lines 266-269: the record handed to the thread.
Prepared(d, k) ==
  [d EXCEPT !.input_name = ifiles[k], !.output_name = ofiles[k],
            !.size = sfiles[k], !.verify = vflag]

\* Lines 258-277, one iteration up to the result of pthread_create: a pair
\* marked missing is skipped; otherwise the record is filled in and a thread is
\* created, which may fail.
Dispatch ==
  /\ pc = "dispatch"
  /\ i < inumf
  /\ \/ /\ Missing(ifiles[i])
        /\ bnumf' = bnumf + 1
        /\ AfterDispatch
        /\ UNCHANGED <<fdata, tpc>>
     \/ /\ ~Missing(ifiles[i])
        /\ fdata' = [fdata EXCEPT ![i] = Prepared(@, i)]
        /\ \E created \in BOOLEAN :
             IF created
             THEN /\ tpc' = [tpc EXCEPT ![i] = "start"]
                  /\ pc' = "mark_running"
                  /\ UNCHANGED <<bnumf, i>>
             ELSE /\ bnumf' = bnumf + 1
                  /\ AfterDispatch
                  /\ UNCHANGED tpc
  /\ UNCHANGED <<hist, env, limits, fsys, tables, t_run, cmd_result, exit_code,
                 infile, outfile, bytes_read, ibuffer, obuffer, tret, tclose>>

\* Line 280: the store main makes after pthread_create has returned 0.
MarkStarted(d) == [d EXCEPT !.status = TS_RUNNING]

\* Lines 278-282.
MarkRunning ==
  /\ pc = "mark_running"
  /\ fdata' = [fdata EXCEPT ![i] = MarkStarted(@)]
  /\ AfterDispatch
  /\ UNCHANGED <<hist, env, limits, fsys, tables, bnumf, t_run, cmd_result, exit_code, tlocals>>

\* Lines 289-300, one iteration of the scan up to the test for TS_DONE. The
\* two loads of status (lines 291 and 300) are one step: a status that is not
\* TS_RUNNING at line 291 is changed by no thread before line 300.
ScanCheck ==
  /\ pc = "scan"
  /\ i < inumf
  /\ IF fdata[i].status = TS_RUNNING
     THEN t_run' = t_run + 1 /\ i' = i + 1 /\ UNCHANGED pc
     ELSE IF Missing(ifiles[i])
     THEN i' = i + 1 /\ UNCHANGED <<t_run, pc>>
     ELSE IF fdata[i].status = TS_DONE
     THEN pc' = "collect" /\ UNCHANGED <<t_run, i>>
     ELSE i' = i + 1 /\ UNCHANGED <<t_run, pc>>
  /\ UNCHANGED <<hist, env, limits, fsys, tables, bnumf, cmd_result, exit_code, fdata, tlocals>>

\* Mutant of Aggregate: the first failure is kept.
AggregateFirst(cmd, r) == IF cmd # EXIT_OK THEN cmd ELSE r

\* Lines 302-321: the command result after a finished thread's result r.
Aggregate(cmd, r) == IF r = EXIT_OK THEN cmd ELSE r

\* Mutant of MarkChecked: the record is left as it was found.
MarkCheckedForgotten(d) == d

\* Line 322.
MarkChecked(d) == [d EXCEPT !.status = TS_CHECKED]

\* Lines 302-323: the result of the thread found TS_DONE is read and
\* aggregated, and the record marked TS_CHECKED.
Collect ==
  /\ pc = "collect"
  /\ cmd_result' = Aggregate(cmd_result, fdata[i].result)
  /\ fdata' = [fdata EXCEPT ![i] = MarkChecked(@)]
  /\ i' = i + 1
  /\ pc' = "scan"
  /\ seen' = Append(seen, [index |-> i, result |-> fdata[i].result])
  /\ UNCHANGED <<outcome, env, limits, fsys, tables, bnumf, t_run, exit_code, tlocals>>

\* Mutant of ScanComplete: the loop ends after the first scan.
ScanCompleteAtOnce(running) == running >= 0

\* Lines 325-328: the scan found no thread running.
ScanComplete(running) == running = 0

\* Lines 325-347, the end of one scan: with no thread seen running the loop
\* ends and main returns cmd_result; otherwise main sleeps and scans again.
ScanEnd ==
  /\ pc = "scan"
  /\ i >= inumf
  /\ IF ScanComplete(t_run)
     THEN Return(cmd_result) /\ UNCHANGED <<i, t_run>>
     ELSE t_run' = 0 /\ i' = 0 /\ UNCHANGED <<pc, exit_code>>
  /\ UNCHANGED <<hist, env, limits, fsys, tables, bnumf, cmd_result, fdata, tlocals>>

Main ==
  \/ CheckArgs
  \/ ParseArgs
  \/ Validate
  \/ AdjustLimit
  \/ Dispatch
  \/ MarkRunning
  \/ ScanCheck
  \/ Collect
  \/ ScanEnd

(***************************************************************************)
(* stdio on the modelled file system.                                      *)
(***************************************************************************)
\* The number of bytes fread(buf, 1, n, f) delivers from a file of contents c.
ReadCount(c, f, n) == IF f.pos < Len(c) THEN Min(n, Len(c) - f.pos) ELSE 0

\* The stream after that fread: advanced, at end-of-file when it fell short.
AfterRead(c, f, n) ==
  [f EXCEPT !.pos = f.pos + ReadCount(c, f, n), !.eof = f.eof \/ ReadCount(c, f, n) < n]

\* The buffer after that fread: its first bytes replaced by the file's.
Fill(buf, c, f, n) ==
  [p \in DOMAIN buf |-> IF p <= ReadCount(c, f, n) THEN c[f.pos + p] ELSE buf[p]]

\* Mutant of Written: every block is written at the start of the file.
WrittenAtStart(c, f, buf, w) == SubSeq(buf, 1, w) \o SubSeq(c, w + 1, Len(c))

\* The file after fwrite has put the first w bytes of buf at the stream's
\* position.
Written(c, f, buf, w) ==
  SubSeq(c, 1, Min(f.pos, Len(c))) \o SubSeq(buf, 1, w)
    \o SubSeq(c, f.pos + w + 1, Len(c))

\* fclose.
Closed(f) == NullFile

(***************************************************************************)
(* copyFile (lines 353-494), the thread of pair k.                         *)
(***************************************************************************)
\* A thread takes steps only while the process is alive.
Alive(k, at) == ~Exited /\ tpc[k] = at

\* An error branch: the message is printed, then status, result, the fcloses
\* and pthread_exit follow in the order of the source. r is the result the
\* branch stores, closes the handles it closes.
Fail(k, r, closes) ==
  /\ tpc' = [tpc EXCEPT ![k] = "err_status"]
  /\ tret' = [tret EXCEPT ![k] = r]
  /\ tclose' = [tclose EXCEPT ![k] = closes]
  /\ outcome' = [outcome EXCEPT ![k] = r]

\* Lines 355-376: the timer is started and the buffers are cleared.
ThreadStart(k) ==
  /\ Alive(k, "start")
  /\ fdata' = [fdata EXCEPT ![k].elapsed = 0]
  /\ ibuffer' = [ibuffer EXCEPT ![k] = ZeroBuffer]
  /\ obuffer' = [obuffer EXCEPT ![k] = ZeroBuffer]
  /\ tpc' = [tpc EXCEPT ![k] = "open_in"]
  /\ UNCHANGED <<hist, env, limits, fsys, tables, mainvars, infile, outfile, bytes_read, tret, tclose>>

\* Lines 379-385.
OpenInput(k) ==
  /\ Alive(k, "open_in")
  /\ \E ok \in BOOLEAN :
       IF ok
       THEN /\ infile' = [infile EXCEPT ![k] = OpenFile]
            /\ tpc' = [tpc EXCEPT ![k] = "open_out"]
            /\ UNCHANGED <<tret, tclose, outcome>>
       ELSE Fail(k, READ_ERROR, {}) /\ UNCHANGED infile
  /\ UNCHANGED <<seen, env, limits, fsys, tables, mainvars, fdata, outfile, bytes_read, ibuffer, obuffer>>

\* Lines 386-393: "w" truncates the output.
OpenOutput(k) ==
  /\ Alive(k, "open_out")
  /\ \E ok \in BOOLEAN :
       IF ok
       THEN /\ outfile' = [outfile EXCEPT ![k] = OpenFile]
            /\ ofs' = [ofs EXCEPT ![k] = <<>>]
            /\ tpc' = [tpc EXCEPT ![k] = "copy_read"]
            /\ UNCHANGED <<tret, tclose, outcome>>
       ELSE Fail(k, WRITE_ERROR, {"in"}) /\ UNCHANGED <<outfile, ofs>>
  /\ UNCHANGED <<seen, env, limits, ifs, tables, mainvars, fdata, infile, bytes_read, ibuffer, obuffer>>

\* A loop head "while (!feof(infile))" with the fread that follows it (lines
\* 396-407 and 444-455): at end-of-file the loop ends; a read of nothing that
\* is not at end-of-file is an error; a read of nothing at end-of-file breaks.
ReadBlock(k, body, after) ==
  IF infile[k].eof
  THEN /\ tpc' = [tpc EXCEPT ![k] = after]
       /\ UNCHANGED <<infile, bytes_read, ibuffer, tret, tclose, outcome>>
  ELSE \E ok \in BOOLEAN :
         IF ok
         THEN /\ bytes_read' = [bytes_read EXCEPT ![k] = ReadCount(ifs[k], infile[k], BLOCKSIZE)]
              /\ ibuffer' = [ibuffer EXCEPT ![k] = Fill(@, ifs[k], infile[k], BLOCKSIZE)]
              /\ infile' = [infile EXCEPT ![k] = AfterRead(ifs[k], @, BLOCKSIZE)]
              /\ tpc' = [tpc EXCEPT ![k] =
                           IF ReadCount(ifs[k], infile[k], BLOCKSIZE) <= 0 THEN after ELSE body]
              /\ UNCHANGED <<tret, tclose, outcome>>
         ELSE /\ bytes_read' = [bytes_read EXCEPT ![k] = 0]
              /\ Fail(k, READ_ERROR, {"in", "out"})
              /\ UNCHANGED <<infile, ibuffer>>

\* Lines 396-407.
CopyRead(k) ==
  /\ Alive(k, "copy_read")
  /\ ReadBlock(k, "copy_write", "copy_close")
  /\ UNCHANGED <<seen, env, limits, fsys, tables, mainvars, fdata, outfile, obuffer>>

\* Lines 408-418: bytes_read bytes are written; a write of fewer bytes is an
\* error.
CopyWrite(k) ==
  /\ Alive(k, "copy_write")
  /\ \E w \in 0 .. bytes_read[k] :
       /\ ofs' = [ofs EXCEPT ![k] = Written(@, outfile[k], ibuffer[k], w)]
       /\ outfile' = [outfile EXCEPT ![k].pos = @ + w]
       /\ IF w # bytes_read[k]
          THEN Fail(k, WRITE_ERROR, {"in", "out"})
          ELSE /\ tpc' = [tpc EXCEPT ![k] = "copy_read"]
               /\ UNCHANGED <<tret, tclose, outcome>>
  /\ UNCHANGED <<seen, env, limits, ifs, tables, mainvars, fdata, infile, bytes_read, ibuffer, obuffer>>

\* Lines 420-423.
CopyClose(k) ==
  /\ Alive(k, "copy_close")
  /\ infile' = [infile EXCEPT ![k] = Closed(@)]
  /\ outfile' = [outfile EXCEPT ![k] = Closed(@)]
  /\ tpc' = [tpc EXCEPT ![k] = IF fdata[k].verify THEN "verify_open_in" ELSE "done_status"]
  /\ UNCHANGED <<hist, env, limits, fsys, tables, mainvars, fdata, bytes_read, ibuffer, obuffer, tret, tclose>>

\* Lines 426-432.
VerifyOpenInput(k) ==
  /\ Alive(k, "verify_open_in")
  /\ \E ok \in BOOLEAN :
       IF ok
       THEN /\ infile' = [infile EXCEPT ![k] = OpenFile]
            /\ tpc' = [tpc EXCEPT ![k] = "verify_open_out"]
            /\ UNCHANGED <<tret, tclose, outcome>>
       ELSE Fail(k, READ_ERROR, {}) /\ UNCHANGED infile
  /\ UNCHANGED <<seen, env, limits, fsys, tables, mainvars, fdata, outfile, bytes_read, ibuffer, obuffer>>

\* Mutant of VerifyOpenOutput: the error branch is the one of the first fopen
\* of the output (line 390).
VerifyOpenOutputAsWrite(k) ==
  /\ Alive(k, "verify_open_out")
  /\ \E ok \in BOOLEAN :
       IF ok
       THEN /\ outfile' = [outfile EXCEPT ![k] = OpenFile]
            /\ tpc' = [tpc EXCEPT ![k] = "verify_read_in"]
            /\ UNCHANGED <<tret, tclose, outcome>>
       ELSE Fail(k, WRITE_ERROR, {"in"}) /\ UNCHANGED outfile
  /\ UNCHANGED <<seen, env, limits, fsys, tables, mainvars, fdata, infile, bytes_read, ibuffer, obuffer>>

\* Lines 433-441.
VerifyOpenOutput(k) ==
  /\ Alive(k, "verify_open_out")
  /\ \E ok \in BOOLEAN :
       IF ok
       THEN /\ outfile' = [outfile EXCEPT ![k] = OpenFile]
            /\ tpc' = [tpc EXCEPT ![k] = "verify_read_in"]
            /\ UNCHANGED <<tret, tclose, outcome>>
       ELSE Fail(k, READ_ERROR, {"in"}) /\ UNCHANGED outfile
  /\ UNCHANGED <<seen, env, limits, fsys, tables, mainvars, fdata, infile, bytes_read, ibuffer, obuffer>>

\* Lines 444-455.
VerifyReadInput(k) ==
  /\ Alive(k, "verify_read_in")
  /\ ReadBlock(k, "verify_read_out", "verify_close")
  /\ UNCHANGED <<seen, env, limits, fsys, tables, mainvars, fdata, outfile, obuffer>>

\* Lines 456-465: as many bytes are read from the output as the input gave;
\* fewer is an error.
VerifyReadOutput(k) ==
  /\ Alive(k, "verify_read_out")
  /\ \E ok \in BOOLEAN :
       IF ok /\ ReadCount(ofs[k], outfile[k], bytes_read[k]) = bytes_read[k]
       THEN /\ obuffer' = [obuffer EXCEPT ![k] = Fill(@, ofs[k], outfile[k], bytes_read[k])]
            /\ outfile' = [outfile EXCEPT ![k] = AfterRead(ofs[k], @, bytes_read[k])]
            /\ tpc' = [tpc EXCEPT ![k] = "verify_compare"]
            /\ UNCHANGED <<tret, tclose, outcome>>
       ELSE /\ Fail(k, READ_ERROR, {"in", "out"})
            /\ UNCHANGED <<obuffer, outfile>>
  /\ UNCHANGED <<seen, env, limits, fsys, tables, mainvars, fdata, infile, bytes_read, ibuffer>>

\* Mutant of Mismatch: only the first byte of a block is compared.
MismatchFirstByte(a, b, n) == n > 0 /\ a[1] # b[1]

\* Lines 467-470: some byte of the two buffers differs.
Mismatch(a, b, n) == \E p \in 1 .. n : a[p] # b[p]

\* Lines 466-479.
VerifyCompare(k) ==
  /\ Alive(k, "verify_compare")
  /\ IF Mismatch(ibuffer[k], obuffer[k], bytes_read[k])
     THEN Fail(k, VERIFY_ERROR, {"in", "out"})
     ELSE /\ tpc' = [tpc EXCEPT ![k] = "verify_read_in"]
          /\ UNCHANGED <<tret, tclose, outcome>>
  /\ UNCHANGED <<seen, env, limits, fsys, tables, mainvars, fdata, infile, outfile, bytes_read,
                 ibuffer, obuffer>>

\* Lines 481-483.
VerifyClose(k) ==
  /\ Alive(k, "verify_close")
  /\ infile' = [infile EXCEPT ![k] = Closed(@)]
  /\ outfile' = [outfile EXCEPT ![k] = Closed(@)]
  /\ tpc' = [tpc EXCEPT ![k] = "done_status"]
  /\ UNCHANGED <<hist, env, limits, fsys, tables, mainvars, fdata, bytes_read, ibuffer, obuffer, tret, tclose>>

\* The store "fdata->status = TS_DONE" (lines 382, 389, 402, ..., 486).
Publish(d) == [d EXCEPT !.status = TS_DONE]

\* The store "fdata->result = ..." that follows it (lines 383, 390, ..., 488).
StoreResult(d, r) == [d EXCEPT !.result = r]

\* Lines 492-493: time_usec and time_sec get the measured time. The record's
\* elapsed field is 0 after the reset of lines 368-369 and 1 once measured.
StoreTime(d) == [d EXCEPT !.elapsed = 1]

\* The thread function returns, or pthread_exit is called: the thread ends and
\* its locals are gone.
EndThread(k) ==
  /\ tpc' = [tpc EXCEPT ![k] = "returned"]
  /\ bytes_read' = [bytes_read EXCEPT ![k] = 0]
  /\ ibuffer' = [ibuffer EXCEPT ![k] = ZeroBuffer]
  /\ obuffer' = [obuffer EXCEPT ![k] = ZeroBuffer]
  /\ tret' = [tret EXCEPT ![k] = EXIT_OK]
  /\ tclose' = [tclose EXCEPT ![k] = {}]

\* Line 486.
DoneStatus(k) ==
  /\ Alive(k, "done_status")
  /\ fdata' = [fdata EXCEPT ![k] = Publish(@)]
  /\ tpc' = [tpc EXCEPT ![k] = "done_result"]
  /\ outcome' = [outcome EXCEPT ![k] = EXIT_OK]
  /\ UNCHANGED <<seen, env, limits, fsys, tables, mainvars, infile, outfile, bytes_read, ibuffer,
                 obuffer, tret, tclose>>

\* Line 488.
DoneResult(k) ==
  /\ Alive(k, "done_result")
  /\ fdata' = [fdata EXCEPT ![k] = StoreResult(@, EXIT_OK)]
  /\ tpc' = [tpc EXCEPT ![k] = "done_time"]
  /\ UNCHANGED <<hist, env, limits, fsys, tables, mainvars, infile, outfile, bytes_read, ibuffer,
                 obuffer, tret, tclose>>

\* Lines 490-494: the elapsed time is stored and the thread function returns.
DoneTime(k) ==
  /\ Alive(k, "done_time")
  /\ fdata' = [fdata EXCEPT ![k] = StoreTime(@)]
  /\ EndThread(k)
  /\ UNCHANGED <<hist, env, limits, fsys, tables, mainvars, infile, outfile>>

\* The first store of an error branch (lines 382, 389, 402, 413, 429, 437,
\* 450, 460, 473).
ErrStatus(k) ==
  /\ Alive(k, "err_status")
  /\ fdata' = [fdata EXCEPT ![k] = Publish(@)]
  /\ tpc' = [tpc EXCEPT ![k] = "err_result"]
  /\ UNCHANGED <<hist, env, limits, fsys, tables, mainvars, infile, outfile, bytes_read, ibuffer,
                 obuffer, tret, tclose>>

\* Mutant of ErrResult: every thread was handed the first record.
ErrResultShared(k) ==
  /\ Alive(k, "err_result")
  /\ fdata' = [fdata EXCEPT ![0] = StoreResult(@, tret[k])]
  /\ tpc' = [tpc EXCEPT ![k] = "err_exit"]
  /\ UNCHANGED <<hist, env, limits, fsys, tables, mainvars, infile, outfile, bytes_read, ibuffer,
                 obuffer, tret, tclose>>

\* The second store of an error branch (lines 383, 390, 403, 414, 430, 438,
\* 451, 461, 474).
ErrResult(k) ==
  /\ Alive(k, "err_result")
  /\ fdata' = [fdata EXCEPT ![k] = StoreResult(@, tret[k])]
  /\ tpc' = [tpc EXCEPT ![k] = "err_exit"]
  /\ UNCHANGED <<hist, env, limits, fsys, tables, mainvars, infile, outfile, bytes_read, ibuffer,
                 obuffer, tret, tclose>>

\* The end of an error branch: its fcloses and pthread_exit (lines 384,
\* 391-392, 404-406, 415-417, 431, 439-440, 452-454, 462-464, 475-477).
ErrExit(k) ==
  /\ Alive(k, "err_exit")
  /\ infile' = [infile EXCEPT ![k] = IF "in" \in tclose[k] THEN Closed(@) ELSE @]
  /\ outfile' = [outfile EXCEPT ![k] = IF "out" \in tclose[k] THEN Closed(@) ELSE @]
  /\ EndThread(k)
  /\ UNCHANGED <<hist, env, limits, fsys, tables, mainvars, fdata>>

Thread(k) ==
  \/ ThreadStart(k)
  \/ OpenInput(k)
  \/ OpenOutput(k)
  \/ CopyRead(k)
  \/ CopyWrite(k)
  \/ CopyClose(k)
  \/ VerifyOpenInput(k)
  \/ VerifyOpenOutput(k)
  \/ VerifyReadInput(k)
  \/ VerifyReadOutput(k)
  \/ VerifyCompare(k)
  \/ VerifyClose(k)
  \/ DoneStatus(k)
  \/ DoneResult(k)
  \/ DoneTime(k)
  \/ ErrStatus(k)
  \/ ErrResult(k)
  \/ ErrExit(k)

(***************************************************************************)
(* The environment: another process rewrites the output file of pair k     *)
(* after the transfer has closed it and before the verification opens it,  *)
(* once.                                                                   *)
(***************************************************************************)
Corrupt(k) ==
  /\ Alive(k, "verify_open_in")
  /\ ofs[k] = ifs[k]
  /\ \E c \in Corruptions(ofs[k]) : ofs' = [ofs EXCEPT ![k] = c]
  /\ UNCHANGED <<hist, env, limits, ifs, tables, mainvars, fdata, tlocals>>

Next ==
  \/ Main
  \/ \E k \in Rows : Thread(k)
  \/ \E k \in Rows : Corrupt(k)

Spec == Init /\ [][Next]_vars

\* The scheduler lets main and every thread that can take a step take one
\* eventually; nothing is assumed of the environment.
FairSpec == Spec /\ WF_vars(Main) /\ \A k \in Rows : WF_vars(Thread(k))

(***************************************************************************)
(* One thread on its own: `threadcopy [-v] -i i0 -o o0' from the moment     *)
(* pthread_create has returned (line 272), with main held at line 278.     *)
(* The input is any file of bits up to MaxCopySize bytes long.              *)
(***************************************************************************)
\* The input files of these runs.
WorkerContents == UNION { [1 .. n -> {0, 1}] : n \in 0 .. MaxCopySize }

\* The state main has built when pthread_create returns for the only pair.
WorkerInit ==
  /\ ivalue = InName(0)
  /\ ovalue = OutName(0)
  /\ vflag \in BOOLEAN
  /\ rl = [rlim_cur |-> MaxLimit, rlim_max |-> MaxLimit]
  /\ \E c \in WorkerContents :
       /\ ifs = [k \in Rows |-> IF k = 0 THEN c ELSE <<>>]
       /\ sfiles = [k \in Rows |-> IF k = 0 THEN check_file_size(c) ELSE 0]
  /\ ofs = [k \in Rows |-> <<>>]
  /\ ifiles = get_filenames(ivalue, [k \in Rows |-> <<>>]).fn
  /\ ofiles = get_filenames(ovalue, [k \in Rows |-> <<>>]).fn
  /\ inumf = get_filenames(ivalue, [k \in Rows |-> <<>>]).numf
  /\ onumf = get_filenames(ovalue, [k \in Rows |-> <<>>]).numf
  /\ bnumf = 0
  /\ i = 0
  /\ t_run = 0
  /\ cmd_result = 0
  /\ fdata = [k \in Rows |-> IF k = 0 THEN Prepared(ZeroData, 0) ELSE ZeroData]
  /\ pc = "mark_running"
  /\ exit_code = NoExit
  /\ tpc = [k \in Rows |-> IF k = 0 THEN "start" ELSE "none"]
  /\ infile = [k \in Rows |-> NullFile]
  /\ outfile = [k \in Rows |-> NullFile]
  /\ bytes_read = [k \in Rows |-> 0]
  /\ ibuffer = [k \in Rows |-> ZeroBuffer]
  /\ obuffer = [k \in Rows |-> ZeroBuffer]
  /\ tret = [k \in Rows |-> EXIT_OK]
  /\ tclose = [k \in Rows |-> {}]
  /\ outcome = [k \in Rows |-> NoExit]
  /\ seen = <<>>
  /\ rl_set = 0

\* The thread runs; another process may rewrite its output before the
\* verification.
WorkerNext ==
  \/ Thread(0)
  \/ Corrupt(0)

WorkerSpec == WorkerInit /\ [][WorkerNext]_vars

(***************************************************************************)
(* The copy made and then copied back: after `threadcopy [-v] -i i0 -o o0'  *)
(* has ended with EXIT_OK the program is run again as                      *)
(* `threadcopy [-v] -i o0 -o o1'. Row 1 stands for the pair of the second   *)
(* run. No other process writes the files.                                 *)
(***************************************************************************)
\* The second run up to the return of its pthread_create: its input is the
\* file the first run wrote (lines 214-226, 266-272).
CopyBack ==
  /\ tpc[0] = "returned"
  /\ outcome[0] = EXIT_OK
  /\ tpc[1] = "none"
  /\ ifs' = [ifs EXCEPT ![1] = ofs[0]]
  /\ fdata' = [fdata EXCEPT ![1] =
                 [ZeroData EXCEPT !.input_name = OutName(0), !.output_name = OutName(1),
                                  !.size = check_file_size(ofs[0]), !.verify = vflag]]
  /\ tpc' = [tpc EXCEPT ![1] = "start"]
  /\ UNCHANGED <<hist, env, limits, ofs, tables, mainvars, infile, outfile, bytes_read, ibuffer,
                 obuffer, tret, tclose>>

RoundTripNext ==
  \/ \E k \in Rows : Thread(k)
  \/ CopyBack

RoundTripSpec == WorkerInit /\ [][RoundTripNext]_vars

(***************************************************************************)
(* Properties.                                                             *)
(***************************************************************************)
\* The pairs main works on.
Tasks == 0 .. (inumf - 1)

\* A thread was created for pair k.
Started(k) == tpc[k] # "none"

\* C1: under fair scheduling the polling loop of main ends and the process
\* exits, whatever the threads and the file system do.
C1_ReaperTerminates == <>Exited

\* Thread k decided on a failure, or on success.
Failed(k) == outcome[k] \notin {NoExit, EXIT_OK}
Succeeded(k) == outcome[k] = EXIT_OK

\* No thread was created.
NoThread == \A k \in Rows : ~Started(k)

C3_SingleFailureIsExitCode ==
  \A f \in Tasks :
    (/\ pc = "returned"
     /\ Failed(f)
     /\ \A k \in Tasks \ {f} : Started(k) => Succeeded(k))
      => exit_code = outcome[f]

RECURSIVE LastFailure(_)
\* The result of the last failing record of rs, EXIT_OK when none failed.
LastFailure(rs) ==
  IF Len(rs) = 0 THEN EXIT_OK
  ELSE IF rs[Len(rs)].result # EXIT_OK THEN rs[Len(rs)].result
  ELSE LastFailure(SubSeq(rs, 1, Len(rs) - 1))

\* C4: the command result is at all times the result of the last record main
\* collected with a result other than EXIT_OK (0 when it collected none), and
\* main returns that value.
C4_LastFailureWins ==
  /\ cmd_result = LastFailure(seen)
  /\ pc = "returned" => exit_code = LastFailure(seen)

\* C4, its case: main collected pair 1 in one scan and pair 0 in a later one,
\* both with a failure, and returned the later one's.
C4_Witness ==
  /\ pc = "returned"
  /\ Len(seen) = 2
  /\ seen[1].index = 1
  /\ seen[2].index = 0
  /\ seen[1].result # EXIT_OK
  /\ seen[2].result \notin {EXIT_OK, seen[1].result}
  /\ exit_code = seen[2].result

\* C5: no step lowers the status of a record, and a record becomes
\* TS_CHECKED only from TS_DONE.
C5_StatusMonotonic ==
  [][\A k \in Rows :
       /\ fdata'[k].status >= fdata[k].status
       /\ (fdata'[k].status = TS_CHECKED /\ fdata[k].status # TS_CHECKED)
            => fdata[k].status = TS_DONE]_vars

\* C6: once the status of a record is TS_DONE or TS_CHECKED, no step changes
\* its result or its elapsed time.
C6_DoneFreezesResult ==
  [][\A k \in Rows :
       fdata[k].status \in {TS_DONE, TS_CHECKED}
         => /\ fdata'[k].result = fdata[k].result
            /\ fdata'[k].elapsed = fdata[k].elapsed]_vars

\* C7: the process has not ended while a thread it started has a step left.
C7_ReaperWaitsForThreads ==
  Exited => \A k \in Rows : tpc[k] \in {"none", "returned"}

\* Validation has been through pair k and found its input missing.
MarkedMissing(k) ==
  /\ k \in Tasks
  /\ pc \notin {"check_args", "parse"}
  /\ pc = "validate" => k < i
  /\ ifiles[k] = <<>>

\* C8: a pair whose input could not be opened in validation has both names
\* emptied, keeps status TS_INIT, gets no thread and is never collected; it
\* stays marked in every later step; and when every other pair succeeds main
\* returns 0.
C8_MissingInputIsSkipped ==
  /\ [](/\ \A k \in Rows :
              MarkedMissing(k)
                => /\ ofiles[k] = <<>>
                   /\ fdata[k].status = TS_INIT
                   /\ ~Started(k)
                   /\ \A n \in 1 .. Len(seen) : seen[n].index # k
        /\ (/\ pc = "returned"
            /\ \E k \in Tasks : MarkedMissing(k)
            /\ \A k \in Tasks : MarkedMissing(k) \/ Succeeded(k))
             => exit_code = EXIT_OK)
  /\ [][\A k \in Rows : MarkedMissing(k) => MarkedMissing(k)']_vars

\* C8, its case: of two pairs the second was missing, the first was copied, and
\* main has returned 0.
C8_Witness ==
  /\ pc = "returned"
  /\ inumf = 2
  /\ MarkedMissing(1)
  /\ Succeeded(0)
  /\ fdata[0].status = TS_CHECKED
  /\ exit_code = EXIT_OK

\* The number of paths a list names: its delimiter-separated entries.
NamedPaths(s) ==
  IF Len(s) = 0 THEN 0 ELSE 1 + Cardinality({p \in 1 .. Len(s) : s[p] = DELIMITER})

\* C9: when the two lists name different numbers of paths, the process exits
\* with ARG_ERROR as soon as the lists are parsed, and no thread is created.
C9_CountMismatchIsArgError ==
  (NamedPaths(ivalue) # NamedPaths(ovalue) /\ pc \notin {"check_args", "parse"})
    => pc = "exit" /\ exit_code = ARG_ERROR /\ NoThread

\* Main is past the adjustment of the descriptor limit (lines 229-243) with
\* N = inumf = onumf pairs, and 2N is more than the hard limit.
BudgetExceedsHardLimit ==
  /\ pc \notin {"check_args", "parse", "validate", "rlimit"}
  /\ inumf = onumf
  /\ 2 * inumf > rl.rlim_max

Dispatched == pc \in {"scan", "collect", "returned"}

\* C11: when both lists name K >= 1 paths, no pair was skipped for a missing
\* input and no pthread_create failed, then after the dispatch loop exactly
\* the threads of the pairs 0 .. K-1 have been created.
C11_OneWorkerPerPair ==
  (/\ Dispatched
   /\ NamedPaths(ivalue) = NamedPaths(ovalue)
   /\ NamedPaths(ivalue) >= 1
   /\ bnumf = 0)
    => {k \in Rows : Started(k)} = 0 .. (NamedPaths(ivalue) - 1)

\* What belongs to pair j: its record, its thread's handles and locals, the
\* result its thread decided on.
Owned(j) ==
  <<fdata[j], infile[j], outfile[j], bytes_read[j], ibuffer[j], obuffer[j],
    tret[j], tclose[j], tpc[j], outcome[j]>>

\* C12: a step of the thread of pair k, error branches included, leaves the
\* record (status, result, elapsed time), the file handles and the locals of
\* every other pair unchanged; and the result in the record of a thread that
\* has ended is the one that thread decided on from its own operations.
C12_FaultIsolation ==
  /\ [](\A k \in Rows : tpc[k] = "returned" => fdata[k].result = outcome[k])
  /\ [][\A k \in Rows :
          Thread(k) => \A j \in Rows \ {k} : Owned(j)' = Owned(j)]_vars

\* C12, its case: two threads have run, the first failed and the second
\* succeeded, and each record holds its own thread's result.
C12_Witness ==
  /\ tpc[0] = "returned"
  /\ tpc[1] = "returned"
  /\ Failed(0)
  /\ Succeeded(1)
  /\ fdata[0].result = outcome[0]
  /\ fdata[1].result = EXIT_OK

\* The positions of a thread in the verification (lines 426-479).
VerifyPhase ==
  {"verify_open_in", "verify_open_out", "verify_read_in", "verify_read_out",
   "verify_compare"}

\* The result a thread is bound to store when it leaves the verification to
\* position at: EXIT_OK after the loop (line 488 is the only store of result
\* that follows line 481), the failing branch's result otherwise.
VerifyResult(k, at, decided) == IF at = "verify_close" THEN EXIT_OK ELSE decided[k]

\* C13: a thread with verify set that leaves the verification while its input
\* and its output differ in length leaves it with READ_ERROR, never with
\* EXIT_OK.
C13_LengthMismatchIsReadError ==
  [][\A k \in Rows :
       (/\ fdata[k].verify
        /\ tpc[k] \in VerifyPhase
        /\ tpc'[k] \notin VerifyPhase
        /\ Len(ifs[k]) # Len(ofs[k]))
         => VerifyResult(k, tpc'[k], outcome') = READ_ERROR]_vars

\* The first n bytes of the input of pair k are in its output, in place.
Agree(k, n) == \A p \in 1 .. n : p <= Len(ofs[k]) /\ ifs[k][p] = ofs[k][p]

\* C14: a thread with verify set whose output is as long as its input but
\* differs from it in some byte leaves the verification from the comparison
\* with VERIFY_ERROR, wherever in its block the byte is (or with READ_ERROR
\* from an fopen or fread that failed first); and the loop never goes on to
\* another block after one that differs: whenever the thread is at the head of
\* the loop or past it, all the bytes read so far agree.
C14_CorruptionIsVerifyError ==
  /\ [](\A k \in Rows :
          tpc[k] \in {"verify_read_in", "verify_close"} => Agree(k, infile[k].pos))
  /\ [][\A k \in Rows :
          (/\ fdata[k].verify
           /\ tpc[k] \in VerifyPhase
           /\ tpc'[k] \notin VerifyPhase
           /\ Len(ifs[k]) = Len(ofs[k])
           /\ ifs[k] # ofs[k])
            => \/ /\ tpc[k] = "verify_compare"
                  /\ VerifyResult(k, tpc'[k], outcome') = VERIFY_ERROR
               \/ /\ tpc[k] # "verify_compare"
                  /\ tpc'[k] = "err_status"
                  /\ VerifyResult(k, tpc'[k], outcome') = READ_ERROR]_vars

\* C14, its case: the output of a two-block file differs from the input in
\* the last byte of the second block only, and the thread has ended with
\* VERIFY_ERROR in its record.
C14_Witness ==
  /\ tpc[0] = "returned"
  /\ fdata[0].verify
  /\ Len(ifs[0]) = 2 * BLOCKSIZE
  /\ Len(ofs[0]) = 2 * BLOCKSIZE
  /\ Agree(0, 2 * BLOCKSIZE - 1)
  /\ ifs[0][2 * BLOCKSIZE] # ofs[0][2 * BLOCKSIZE]
  /\ fdata[0].result = VERIFY_ERROR

\* C15: when no other process writes the files, a transfer loop that ends
\* without an error has made the output equal to the input, byte for byte,
\* for an input of any length; so has every thread that decided on EXIT_OK,
\* with or without verify; the copy of a copy equals the original; and for an
\* input of length 0 the thread writes nothing and compares nothing.
C15_CopyRoundTrip ==
  /\ \A k \in Rows : tpc[k] = "copy_close" => ofs[k] = ifs[k]
  /\ \A k \in Rows : Succeeded(k) => ofs[k] = ifs[k]
  /\ (Succeeded(0) /\ Succeeded(1)) => ofs[1] = ifs[0]
  /\ \A k \in Rows :
       (Started(k) /\ Len(ifs[k]) = 0)
         => /\ tpc[k] \notin {"copy_write", "verify_read_out", "verify_compare"}
            /\ Len(ofs[k]) = 0

\* C15, its case: an input of two blocks and a part of a third, not all bytes
\* alike, was copied and verified, the copy was copied and verified in turn,
\* and the second copy equals the original.
C15_Witness ==
  /\ tpc[0] = "returned"
  /\ tpc[1] = "returned"
  /\ vflag
  /\ Succeeded(0)
  /\ Succeeded(1)
  /\ Len(ifs[0]) = 2 * BLOCKSIZE + 1
  /\ ifs[0][1] # ifs[0][2]
  /\ ofs[1] = ifs[0]

\* pthread_create has failed for pair k (lines 273-277): main is past the
\* iteration of the dispatch loop for k, the pair is not marked missing and
\* has no thread.
StartFailed(k) ==
  /\ k \in Tasks
  /\ ifiles[k] # <<>>
  /\ ~Started(k)
  /\ \/ Dispatched
     \/ pc \in {"dispatch", "mark_running"} /\ i > k

\* C16: a pair whose pthread_create failed keeps status TS_INIT and is never
\* collected, so it does not reach the exit code; the process does not exit
\* on the failure and main goes on to the end of the dispatch loop; the pair
\* stays that way in every later step; and under fair scheduling the polling
\* loop ends.
C16_FailedStartIsSkipped ==
  /\ [](\A k \in Rows :
          StartFailed(k)
            => /\ fdata[k].status = TS_INIT
               /\ \A n \in 1 .. Len(seen) : seen[n].index # k
               /\ pc # "exit")
  /\ [][\A k \in Rows : StartFailed(k) => StartFailed(k)']_vars
  /\ (\E k \in Rows : StartFailed(k)) ~> Dispatched
  /\ (\E k \in Rows : StartFailed(k)) ~> Exited

\* C17: when main has left the polling loop (it returns, line 347), every
\* pair whose thread was created has status TS_CHECKED and no record is
\* TS_RUNNING or TS_DONE.
C17_ReaperExitIsSafe ==
  pc = "returned"
    => /\ \A k \in Rows : Started(k) => fdata[k].status = TS_CHECKED
       /\ \A k \in Rows : fdata[k].status \notin {TS_RUNNING, TS_DONE}

\* C17, its case: of two pairs one start failed and one thread ran and
\* failed; main has left the loop with that record TS_CHECKED and the other
\* TS_INIT.
C17_Witness ==
  /\ pc = "returned"
  /\ inumf = 2
  /\ StartFailed(0)
  /\ Started(1)
  /\ Failed(1)
  /\ fdata[0].status = TS_INIT
  /\ fdata[1].status = TS_CHECKED

\* The FILE pointers thread k holds open.
OpenHandles(k) ==
  (IF infile[k].open THEN {"in"} ELSE {}) \cup (IF outfile[k].open THEN {"out"} ELSE {})

\* C18: whenever the status of a record is TS_DONE or TS_CHECKED, its thread
\* holds no open file: every handle the thread opened is closed before
\* status = TS_DONE is stored.
C18_HandlesClosedBeforeDone ==
  \A k \in Rows :
    fdata[k].status \in {TS_DONE, TS_CHECKED} => OpenHandles(k) = {}

\* The operations of copyFile that can fail, by the position of the thread.
Operations ==
  {"open_in", "open_out", "copy_read", "copy_write"} \cup VerifyPhase

\* The result each operation is to give when it fails.
ResultOf(at) ==
  CASE at = "open_out" -> WRITE_ERROR
    [] at = "copy_write" -> WRITE_ERROR
    [] at = "verify_compare" -> VERIFY_ERROR
    [] OTHER -> READ_ERROR

\* The positions of a thread between a failed operation and its end.
ErrorPath == {"err_status", "err_result", "err_exit"}

\* C19: the first operation of a thread that fails decides its result (fopen
\* of the input, fread, the reopening fopens and a short read of the output
\* give READ_ERROR; fopen of the output and a short or failed fwrite give
\* WRITE_ERROR; a byte that differs gives VERIFY_ERROR); after it the thread
\* only stores, closes and ends, touching no file and keeping its decision;
\* EXIT_OK is decided only at line 486, by a thread none of whose operations
\* failed; and the record of a thread that has ended holds its decision.
C19_FirstFailureDecides ==
  /\ [](\A k \in Rows : tpc[k] = "returned" => fdata[k].result = outcome[k])
  /\ [][\A k \in Rows :
          /\ (tpc[k] \in Operations /\ tpc'[k] \in ErrorPath)
               => outcome'[k] = ResultOf(tpc[k]) /\ tret'[k] = ResultOf(tpc[k])
          /\ (tpc[k] \in Operations /\ tpc'[k] \notin ErrorPath)
               => outcome'[k] = NoExit
          /\ tpc[k] \in ErrorPath
               => /\ tpc'[k] \in ErrorPath \cup {"returned"}
                  /\ outcome'[k] = outcome[k]
                  /\ ifs'[k] = ifs[k]
                  /\ ofs'[k] = ofs[k]
                  /\ infile'[k] \in {infile[k], NullFile}
                  /\ outfile'[k] \in {outfile[k], NullFile}
          /\ Failed(k) => outcome'[k] = outcome[k]
          /\ (outcome'[k] = EXIT_OK /\ outcome[k] # EXIT_OK)
               => outcome[k] = NoExit /\ tpc[k] = "done_status"]_vars

\* C19, its case: with verify set the fwrite of the second block wrote one
\* byte of two; the thread has ended with WRITE_ERROR in its record and the
\* output as that write left it.
C19_Witness ==
  /\ tpc[0] = "returned"
  /\ vflag
  /\ Len(ifs[0]) = 2 * BLOCKSIZE
  /\ Len(ofs[0]) = BLOCKSIZE + 1
  /\ outcome[0] = WRITE_ERROR
  /\ fdata[0].result = WRITE_ERROR

\* C20: with N = inumf = onumf pairs, the adjustment (lines 229-243) raises a
\* soft limit below 2N to exactly 2N, by one call of setrlimit, when 2N does
\* not exceed the hard limit, and leaves a soft limit of 2N or more as it is;
\* it never touches the hard limit nor puts the soft limit above it; it
\* happens while no thread exists; no other step changes the limits; and
\* whenever a thread exists the soft limit is at least 2N.
C20_LimitAdjustedOnce ==
  /\ [](/\ rl.rlim_cur <= rl.rlim_max
        /\ rl_set <= 1
        /\ pc = "rlimit" => inumf = onumf
        /\ ~NoThread => rl.rlim_cur >= 2 * inumf)
  /\ [][IF pc = "rlimit"
        THEN /\ NoThread
             /\ rl'.rlim_max = rl.rlim_max
             /\ (rl.rlim_cur < 2 * inumf /\ 2 * inumf <= rl.rlim_max)
                  => rl'.rlim_cur = 2 * inumf /\ rl_set' = rl_set + 1
             /\ rl.rlim_cur >= 2 * inumf => rl' = rl /\ rl_set' = rl_set
        ELSE rl' = rl /\ rl_set' = rl_set]_vars

\* C20, its case: one pair, the soft limit raised by setrlimit to 2, below
\* the hard limit, and the thread created afterwards.
C20_Witness ==
  /\ inumf = 1
  /\ rl_set = 1
  /\ rl.rlim_cur = 2
  /\ rl.rlim_max > 2
  /\ Started(0)

====
